---- MODULE Spec2Model ----
(***************************************************************************)
(* FocusTube: the request-validation and abuse-mitigation code of the      *)
(* repository.                                                             *)
(*                                                                         *)
(*   SecurityUtils (utils/securityUtils)   sliding-window rate limiter,    *)
(*                                         sanitizeInput,                  *)
(*                                         containsDangerousContent        *)
(*   useSecurity   (hooks/useSecurity)     shouldThrottle, validateInput,  *)
(*                                         validateYouTubeUrl              *)
(*   VideoService  (services/videoService) extractVideoId,                 *)
(*                                         isValidYouTubeUrl               *)
(*   SearchBar / App / VideoPlayer         the submission entry point and  *)
(*                                         the two screens                 *)
(*                                                                         *)
(* A JavaScript string is a sequence of one-character strings.  Regular    *)
(* expressions are operators that compute, for a start index, the index    *)
(* at which the leftmost-first match ends (0: no match at that index).     *)
(***************************************************************************)
EXTENDS Integers, Sequences, FiniteSets, TLC

VARIABLES
    now,                 \* Date.now()
    \* SecurityUtils (module-level singleton)
    requestCounts,       \* this.requestCounts: Map identifier -> timestamps
    admitted,            \* history: every admitted isRateLimited call, per identifier
    call,                \* history: the last isRateLimited call
    \* useSecurity refs of the mounted SearchBar
    requestCount,        \* requestCount.current
    requestWindowStart,  \* requestWindowStart.current
    lastRequestTime,     \* lastRequestTime.current
    \* SearchBar state
    searchValue,
    error,
    \* App state
    searchQuery,
    currentVideoUrl,
    \* history of the submission entry point
    passLog,             \* times of the submissions that passed the rate-limit step
    submit,              \* the last handleSearch invocation
    \* the pure functions: argument, class, results, position
    arg,
    kind,
    ret,
    ret2,
    pc

vars == << now, requestCounts, admitted, call, requestCount, requestWindowStart,
           lastRequestTime, searchValue, error, searchQuery, currentVideoUrl,
           passLog, submit, arg, kind, ret, ret2, pc >>

rateVars == << requestCounts, admitted, call >>
uiVars == << requestCount, requestWindowStart, lastRequestTime, searchValue, error,
             searchQuery, currentVideoUrl, passLog, submit >>
pureVars == << arg, kind, ret, ret2, pc >>

\* null, where a string is expected: no string has an element of four characters
null == << "null" >>

(***************************************************************************)
(* Bounds of the model.                                                    *)
(***************************************************************************)
MaxTime == 60000
MaxUITime == 119998
MaxSubmits == 11
MaxFilenameLen == 3
MaxFragments == 3

\* The clock advances by one of these amounts between two calls.
Ticks == {59999, 60000}

Identifiers == {"default", "other"}

(***************************************************************************)
(* SecurityUtils: the rate limiter.                                        *)
(***************************************************************************)
rateLimitWindow == 60000
maxRequestsPerWindow == 10

\* The filter of isRateLimited, mutated: a timestamp exactly one window old stays live.
IsLiveInclusive(timestamp, windowStart) == timestamp >= windowStart

\* requests.filter(timestamp => timestamp > windowStart)
IsLive(timestamp, windowStart) == timestamp > windowStart

\* The ceiling test of isRateLimited, mutated: one request too many is admitted.
ExceedsLimitStrict(n) == n > maxRequestsPerWindow

\* validRequests.length >= this.maxRequestsPerWindow
ExceedsLimit(n) == n >= maxRequestsPerWindow

\* this.requestCounts.get(identifier), after the has/set of an unknown identifier
Requests(identifier) ==
    IF identifier \in DOMAIN requestCounts THEN requestCounts[identifier] ELSE << >>

ValidRequests(identifier, t) ==
    SelectSeq(Requests(identifier), LAMBDA timestamp : IsLive(timestamp, t - rateLimitWindow))

\* The number of admitted calls of the identifier with a timestamp in (t - window, t].
LiveAdmitted(identifier, t) ==
    Cardinality({i \in DOMAIN admitted[identifier] :
                    /\ admitted[identifier][i] > t - rateLimitWindow
                    /\ admitted[identifier][i] <= t})

NoCall == [id |-> "none", at |-> 0, limited |-> FALSE, liveBefore |-> 0,
           lastBefore |-> -1, storedBefore |-> 0]

\* isRateLimited, mutated: the check is made and the request is not recorded.
isRateLimitedCheckOnly(identifier) ==
    LET validRequests == ValidRequests(identifier, now)
        limited == ExceedsLimit(Len(validRequests))
        log == admitted[identifier]
    IN  /\ requestCounts' = [i \in DOMAIN requestCounts \cup {identifier} |->
                                IF i = identifier THEN validRequests ELSE requestCounts[i]]
        /\ admitted' = [admitted EXCEPT
                            ![identifier] = IF limited THEN @ ELSE Append(@, now)]
        /\ call' = [id |-> identifier, at |-> now, limited |-> limited,
                    liveBefore |-> LiveAdmitted(identifier, now),
                    lastBefore |-> IF log = << >> THEN -1 ELSE log[Len(log)],
                    storedBefore |-> Len(Requests(identifier))]
        /\ UNCHANGED << now, uiVars, pureVars >>


\* isRateLimited, mutated: a call that is reported limited is recorded too.
isRateLimitedRecordAlways(identifier) ==
    LET validRequests == ValidRequests(identifier, now)
        limited == ExceedsLimit(Len(validRequests))
        log == admitted[identifier]
    IN  /\ requestCounts' = [i \in DOMAIN requestCounts \cup {identifier} |->
                                IF i = identifier THEN Append(validRequests, now)
                                ELSE requestCounts[i]]
        /\ admitted' = [admitted EXCEPT
                            ![identifier] = IF limited THEN @ ELSE Append(@, now)]
        /\ call' = [id |-> identifier, at |-> now, limited |-> limited,
                    liveBefore |-> LiveAdmitted(identifier, now),
                    lastBefore |-> IF log = << >> THEN -1 ELSE log[Len(log)],
                    storedBefore |-> Len(Requests(identifier))]
        /\ UNCHANGED << now, uiVars, pureVars >>


\* isRateLimited, mutated: one history is kept for all the identifiers.
isRateLimitedShared(identifier) ==
    LET validRequests == ValidRequests(identifier, now)
        limited == ExceedsLimit(Len(validRequests))
        stored == IF limited THEN validRequests ELSE Append(validRequests, now)
        log == admitted[identifier]
    IN  /\ requestCounts' = [i \in DOMAIN requestCounts \cup {identifier} |-> stored]
        /\ admitted' = [admitted EXCEPT
                            ![identifier] = IF limited THEN @ ELSE Append(@, now)]
        /\ call' = [id |-> identifier, at |-> now, limited |-> limited,
                    liveBefore |-> LiveAdmitted(identifier, now),
                    lastBefore |-> IF log = << >> THEN -1 ELSE log[Len(log)],
                    storedBefore |-> Len(Requests(identifier))]
        /\ UNCHANGED << now, uiVars, pureVars >>


\* SecurityUtils.isRateLimited(identifier): one call, check and record together.
isRateLimited(identifier) ==
    LET validRequests == ValidRequests(identifier, now)
        limited == ExceedsLimit(Len(validRequests))
        stored == IF limited THEN validRequests ELSE Append(validRequests, now)
        log == admitted[identifier]
    IN  /\ requestCounts' = [i \in DOMAIN requestCounts \cup {identifier} |->
                                IF i = identifier THEN stored ELSE requestCounts[i]]
        /\ admitted' = [admitted EXCEPT
                            ![identifier] = IF limited THEN @ ELSE Append(@, now)]
        /\ call' = [id |-> identifier, at |-> now, limited |-> limited,
                    liveBefore |-> LiveAdmitted(identifier, now),
                    lastBefore |-> IF log = << >> THEN -1 ELSE log[Len(log)],
                    storedBefore |-> Len(Requests(identifier))]
        /\ UNCHANGED << now, uiVars, pureVars >>

\* Date.now() between two calls: the clock never goes back.
AdvanceClock(limit) ==
    \E d \in Ticks : now + d <= limit /\ now' = now + d

RateTick == AdvanceClock(MaxTime) /\ UNCHANGED << rateVars, uiVars, pureVars >>

RateCall == \E identifier \in Identifiers : isRateLimited(identifier)

UIIdle ==
    /\ requestCount = 0
    /\ requestWindowStart = 0
    /\ lastRequestTime = 0
    /\ searchValue = << >>
    /\ error = << >>
    /\ searchQuery = << >>
    /\ currentVideoUrl = null
    /\ passLog = << >>
    /\ submit = [returned |-> FALSE, throttled |-> FALSE, accepted |-> FALSE,
                 ran |-> << >>, urlBefore |-> null]

PureIdle ==
    /\ arg = << >>
    /\ kind = "none"
    /\ ret = null
    /\ ret2 = null
    /\ pc = "idle"

RateIdle ==
    /\ requestCounts = << >>
    /\ admitted = [i \in Identifiers |-> << >>]
    /\ call = NoCall

\* new SecurityUtils(): an empty Map.
RateInit == now = 0 /\ RateIdle /\ UIIdle /\ PureIdle

RateNext == RateCall \/ RateTick

SpecRate == RateInit /\ [][RateNext]_vars

(***************************************************************************)
(* Claims about the rate limiter, checked under SpecRate.                  *)
(***************************************************************************)

C2_RecoversAfterWindow ==
    (call.id # "none" /\ call.lastBefore >= 0
        /\ call.at >= call.lastBefore + rateLimitWindow) => ~call.limited

\* C2, its case: ten stored requests, the last exactly one window old, and the
\* call is admitted.
C2_Witness ==
    /\ call.id # "none"
    /\ call.storedBefore = maxRequestsPerWindow
    /\ call.lastBefore >= 0
    /\ call.at = call.lastBefore + rateLimitWindow
    /\ ~call.limited


\* The stored entries of the identifier that are younger than one window at time t.
LiveEntries(identifier, t) ==
    LET stored == IF identifier \in DOMAIN requestCounts
                  THEN requestCounts[identifier] ELSE << >>
    IN  SelectSeq(stored, LAMBDA timestamp : timestamp > t - rateLimitWindow)

\* C15: a call of isRateLimited that is reported limited records nothing: it
\* leaves the identifier's history as the live entries it had, the stale ones
\* gone, so the entries that are live at any later time are the same as
\* before and denied attempts do not put off the time the identifier is
\* allowed again; an admitted call appends one entry, now.
C15_DeniedNotRecorded ==
    [][\A id \in Identifiers :
          (now' = now /\ call'.id = id) =>
              /\ call'.limited =>
                    /\ LiveEntries(id, now)' = LiveEntries(id, now)
                    /\ requestCounts'[id] = LiveEntries(id, now)
                    /\ \A d \in Ticks :
                          LiveEntries(id, now + d)' = LiveEntries(id, now + d)
              /\ ~call'.limited =>
                    requestCounts'[id] = Append(LiveEntries(id, now), now)]_vars

\* C15, its case: a call is denied one tick after the ten admitted ones and
\* the history still ends with their timestamp.
C15_Witness ==
    /\ call.id # "none"
    /\ call.limited
    /\ call.at = 59999
    /\ Len(requestCounts[call.id]) = maxRequestsPerWindow
    /\ requestCounts[call.id][maxRequestsPerWindow] = 0


\* C17: the histories are kept apart: a call isRateLimited(a) leaves the
\* stored history of every other identifier b as it was, and with it the
\* answer to a later call for b; an identifier that was never seen has an
\* empty history and its first call is admitted.
C17_IdentifiersIsolated ==
    [][\A a \in Identifiers :
          (now' = now /\ call'.id = a) =>
              /\ \A b \in Identifiers \ {a} :
                    /\ b \in DOMAIN requestCounts' <=> b \in DOMAIN requestCounts
                    /\ b \in DOMAIN requestCounts => requestCounts'[b] = requestCounts[b]
              /\ a \notin DOMAIN requestCounts =>
                    /\ ~call'.limited
                    /\ requestCounts'[a] = << now >>]_vars

\* C17, its case: one identifier is at its ceiling and the first call of
\* the other one is admitted.
C17_Witness ==
    /\ "default" \in DOMAIN requestCounts
    /\ Len(requestCounts["default"]) = maxRequestsPerWindow
    /\ call.id = "other"
    /\ call.storedBefore = 0
    /\ ~call.limited
    /\ requestCounts["other"] = << now >>

(***************************************************************************)
(* JavaScript strings and the String methods the code calls.               *)
(***************************************************************************)
UpperCase == << "A", "B", "C", "D", "E", "F", "G", "H", "I", "J", "K", "L", "M",
                "N", "O", "P", "Q", "R", "S", "T", "U", "V", "W", "X", "Y", "Z" >>
LowerCase == << "a", "b", "c", "d", "e", "f", "g", "h", "i", "j", "k", "l", "m",
                "n", "o", "p", "q", "r", "s", "t", "u", "v", "w", "x", "y", "z" >>
Digits == {"0", "1", "2", "3", "4", "5", "6", "7", "8", "9"}
Letters == {UpperCase[i] : i \in 1..26} \cup {LowerCase[i] : i \in 1..26}

\* \w and \s of a regular expression
WordChars == Letters \cup Digits \cup {"_"}
WhiteSpace == {" ", "\t", "\n", "\r"}

Min(S) == CHOOSE x \in S : \A y \in S : x <= y
Max(S) == CHOOSE x \in S : \A y \in S : x >= y

ToLowerChar(c) ==
    IF \E i \in 1..26 : UpperCase[i] = c
    THEN LowerCase[CHOOSE i \in 1..26 : UpperCase[i] = c]
    ELSE c

\* String.prototype.toLowerCase
toLowerCase(s) == [i \in 1..Len(s) |-> ToLowerChar(s[i])]

\* String.prototype.trim
trim(s) ==
    LET keep == {i \in 1..Len(s) : s[i] \notin WhiteSpace}
    IN  IF keep = {} THEN << >> ELSE SubSeq(s, Min(keep), Max(keep))

\* The literal p occurs in s at index i.
LiteralAt(s, p, i) ==
    /\ i >= 1
    /\ i + Len(p) - 1 <= Len(s)
    /\ SubSeq(s, i, i + Len(p) - 1) = p

\* The same under the i flag (p is written in lower case).
LiteralAtCI(s, p, i) ==
    /\ i >= 1
    /\ i + Len(p) - 1 <= Len(s)
    /\ toLowerCase(SubSeq(s, i, i + Len(p) - 1)) = p

\* String.prototype.startsWith and String.prototype.includes
startsWith(s, p) == LiteralAt(s, p, 1)
includes(s, p) == \E i \in 1..(Len(s) - Len(p) + 1) : LiteralAt(s, p, i)

\* The end of the longest run of characters of class C that starts at index i
\* (i - 1: the run is empty).
RunEnd(s, C, i) ==
    LET stops == {j \in i..Len(s) : s[j] \notin C}
    IN  IF stops = {} THEN Len(s) ELSE Min(stops) - 1

(***************************************************************************)
(* The regular expressions of SecurityUtils.  Each operator gives the      *)
(* index of the last character of the match that starts at index i, or 0   *)
(* when the expression does not match there.  No expression matches the    *)
(* empty string.                                                           *)
(***************************************************************************)
S_javascript == << "j", "a", "v", "a", "s", "c", "r", "i", "p", "t", ":" >>
S_data == << "d", "a", "t", "a", ":" >>
S_vbscript == << "v", "b", "s", "c", "r", "i", "p", "t", ":" >>
S_file == << "f", "i", "l", "e", ":" >>
S_on == << "o", "n" >>
S_script == << "s", "c", "r", "i", "p", "t" >>
S_iframe == << "i", "f", "r", "a", "m", "e" >>
S_object == << "o", "b", "j", "e", "c", "t" >>
S_embed == << "e", "m", "b", "e", "d" >>
S_dotdot == << ".", "." >>

\* /javascript:/gi, /data:/gi, /vbscript:/gi: a literal, any letter case
MatchLiteralCI(s, p, i) == IF LiteralAtCI(s, p, i) THEN i + Len(p) - 1 ELSE 0

\* /\.\./g
MatchDotDot(s, i) == IF LiteralAt(s, S_dotdot, i) THEN i + 1 ELSE 0

\* /<tag\b[^<]*(?:(?!<\/tag>)<[^<]*)*<\/tag>/gi: "<tag" at a word boundary,
\* then everything up to and including the first "</tag>".  [^<]* stops at
\* every "<"; the group takes a "<" only where "</tag>" does not start, so
\* the match closes at the first "</tag>" after the opening.
MatchBlock(s, tag, i) ==
    LET open == << "<" >> \o tag
        close == << "<", "/" >> \o tag \o << ">" >>
        after == i + Len(open)
        closes == {j \in after..Len(s) : LiteralAtCI(s, close, j)}
    IN  IF /\ LiteralAtCI(s, open, i)
           /\ (after > Len(s) \/ s[after] \notin WordChars)
           /\ closes # {}
        THEN Min(closes) + Len(close) - 1
        ELSE 0

\* /on\w+\s*=/gi: "on", one or more word characters, optional white space, "="
MatchEventHandler(s, i) ==
    LET word == RunEnd(s, WordChars, i + 2)
        space == RunEnd(s, WhiteSpace, word + 1)
    IN  IF /\ LiteralAtCI(s, S_on, i)
           /\ word >= i + 2
           /\ space + 1 <= Len(s)
           /\ s[space + 1] = "="
        THEN space + 1
        ELSE 0

\* /<[^>]*>/g: "<" up to the first ">"
MatchTag(s, i) ==
    LET gts == {j \in (i + 1)..Len(s) : s[j] = ">"}
    IN  IF i <= Len(s) /\ s[i] = "<" /\ gts # {} THEN Min(gts) ELSE 0

\* /[<>:"|?*]/g and /\/|\\/g: one character of a class
MatchChar(s, C, i) == IF i <= Len(s) /\ s[i] \in C THEN i ELSE 0

FilenameChars == {"<", ">", ":", "\"", "|", "?", "*"}
PathSeparators == {"/", "\\"}

\* The expressions by name.
MatchEnd(re, s, i) ==
    CASE re = "javascript" -> MatchLiteralCI(s, S_javascript, i)
      [] re = "data" -> MatchLiteralCI(s, S_data, i)
      [] re = "vbscript" -> MatchLiteralCI(s, S_vbscript, i)
      [] re = "script" -> MatchBlock(s, S_script, i)
      [] re = "iframe" -> MatchBlock(s, S_iframe, i)
      [] re = "object" -> MatchBlock(s, S_object, i)
      [] re = "embed" -> MatchBlock(s, S_embed, i)
      [] re = "on" -> MatchEventHandler(s, i)
      [] re = "tag" -> MatchTag(s, i)
      [] re = "dotdot" -> MatchDotDot(s, i)
      [] re = "filenameChars" -> MatchChar(s, FilenameChars, i)
      [] re = "separators" -> MatchChar(s, PathSeparators, i)

\* RegExp.prototype.test on a fresh expression
test(re, s) == \E i \in 1..Len(s) : MatchEnd(re, s, i) # 0

\* String.prototype.replace(re, '') with the g flag: from the left, the
\* leftmost match is removed and the search resumes behind it.
RECURSIVE ReplaceFrom(_, _, _)
ReplaceFrom(s, re, from) ==
    LET starts == {i \in from..Len(s) : MatchEnd(re, s, i) # 0}
    IN  IF starts = {}
        THEN SubSeq(s, from, Len(s))
        ELSE SubSeq(s, from, Min(starts) - 1)
                \o ReplaceFrom(s, re, MatchEnd(re, s, Min(starts)) + 1)

remove(s, re) == ReplaceFrom(s, re, 1)

RECURSIVE RemoveEach(_, _)
\* s.replace(re1, '').replace(re2, '')...: one pass per expression, in order
RemoveEach(s, res) ==
    IF res = << >> THEN s ELSE RemoveEach(remove(s, Head(res)), Tail(res))

(***************************************************************************)
(* SecurityUtils.sanitizeInput and containsDangerousContent.               *)
(***************************************************************************)
Kinds == {"url", "text", "filename"}

\* The chain of replace calls of each case of the switch.
SanitizeChain(type) ==
    CASE type = "url" -> << "javascript", "data", "vbscript", "script", "on" >>
      [] type = "filename" -> << "dotdot", "filenameChars", "separators" >>
      [] OTHER -> << "tag", "javascript", "on" >>

sanitizeInput(input, type) ==
    IF input = << >> THEN << >> ELSE RemoveEach(trim(input), SanitizeChain(type))

dangerousPatterns ==
    << "script", "javascript", "data", "vbscript", "on", "iframe", "object", "embed" >>

\* containsDangerousContent, mutated: the event handler pattern is missing.
containsDangerousContentNoHandlers(input) ==
    /\ input # << >>
    /\ \E k \in DOMAIN dangerousPatterns :
          dangerousPatterns[k] # "on" /\ test(dangerousPatterns[k], input)


containsDangerousContent(input) ==
    /\ input # << >>
    /\ \E k \in DOMAIN dangerousPatterns : test(dangerousPatterns[k], input)

(***************************************************************************)
(* sanitizeInput as a function of its arguments: it is applied to an       *)
(* input, and then to its own result.                                      *)
(***************************************************************************)
FilenameAlphabet == {".", "/", "\\", "a", "*"}

\* The pieces the url and text inputs are put together from.
Fragments ==
    { << "j", "a", "v", "a" >>,
      << "s", "c", "r", "i", "p", "t", ":" >>,
      << "j", "a", "v", "a", "s", "c", "r", "i", "p", "t", ":" >>,
      << "d", "a", "t", "a", ":" >>,
      << "o", "n", "x", "=" >>,
      << "<" >>,
      << "b", ">" >>,
      << " " >> }

RECURSIVE Concat(_)
Concat(parts) == IF parts = << >> THEN << >> ELSE Head(parts) \o Concat(Tail(parts))

SeqsUpTo(S, n) == UNION {[1..k -> S] : k \in 0..n}

SanitizeInputs(type) ==
    IF type = "filename"
    THEN SeqsUpTo(FilenameAlphabet, MaxFilenameLen)
    ELSE {Concat(parts) : parts \in SeqsUpTo(Fragments, MaxFragments)}

SanInit ==
    /\ now = 0
    /\ RateIdle
    /\ UIIdle
    /\ kind \in Kinds
    /\ arg \in SanitizeInputs(kind)
    /\ ret = null
    /\ ret2 = null
    /\ pc = "start"

Sanitize ==
    /\ pc = "start"
    /\ ret' = sanitizeInput(arg, kind)
    /\ pc' = "once"
    /\ UNCHANGED << now, rateVars, uiVars, arg, kind, ret2 >>

SanitizeAgain ==
    /\ pc = "once"
    /\ ret2' = sanitizeInput(ret, kind)
    /\ pc' = "twice"
    /\ UNCHANGED << now, rateVars, uiVars, arg, kind, ret >>

SanNext == Sanitize \/ SanitizeAgain

SpecSanitize == SanInit /\ [][SanNext]_vars

\* C8: sanitizeInput is idempotent for every class: sanitizing a sanitized
\* value of the same class leaves it unchanged; equivalently, one pass leaves
\* no occurrence of a substring the class removes (no ".." in a filename).
C8_Idempotent ==
    /\ pc = "twice" => ret2 = ret
    /\ (pc = "once" /\ kind = "filename") => ~includes(ret, S_dotdot)

(***************************************************************************)
(* new URL(url): scheme and host of the URL parser, without a base URL.    *)
(* Hosts are domain names (no IPv4 or IPv6 literal, no percent or puny     *)
(* code).                                                                  *)
(***************************************************************************)
SchemeChars == Letters \cup Digits \cup {"+", "-", "."}
SpecialSchemes == { << "h", "t", "t", "p" >>, << "h", "t", "t", "p", "s" >>, << "f", "t",
                       "p" >>, << "w", "s" >>, << "w", "s", "s" >> }
AuthorityStop == {"/", "?", "#"}
ForbiddenHostChars ==
    {" ", "#", "/", ":", "<", ">", "?", "@", "[", "\\", "]", "^", "|", "%"}

\* The end of the longest run of characters outside Stop that starts at index i.
RunEndBefore(s, Stop, i) ==
    LET stops == {j \in i..Len(s) : s[j] \in Stop}
    IN  IF stops = {} THEN Len(s) ELSE Min(stops) - 1

\* Leading and trailing white space is stripped, tabs and newlines are removed.
UrlInput(input) == SelectSeq(trim(input), LAMBDA c : c \notin {"\t", "\n", "\r"})

ParseFailure == [ok |-> FALSE, protocol |-> << >>, hostname |-> << >>]

\* The host of the authority s[from..to]: behind the last "@", before the port.
HostOfAuthority(s, from, to) ==
    LET ats == {j \in from..to : s[j] = "@"}
        hostStart == IF ats = {} THEN from ELSE Max(ats) + 1
        colons == {j \in hostStart..to : s[j] = ":"}
        hostEnd == IF colons = {} THEN to ELSE Min(colons) - 1
        port == IF colons = {} THEN << >> ELSE SubSeq(s, Min(colons) + 1, to)
    IN  [host |-> SubSeq(s, hostStart, hostEnd),
         portOk |-> Len(port) <= 4 /\ \A k \in DOMAIN port : port[k] \in Digits]

ParseURL(input) ==
    LET s == UrlInput(input)
        schemeEnd == RunEnd(s, SchemeChars, 1)
        scheme == toLowerCase(SubSeq(s, 1, schemeEnd))
        protocol == scheme \o << ":" >>
        rest == schemeEnd + 2
    IN  IF s = << >> \/ s[1] \notin Letters \/ schemeEnd = Len(s) \/ s[schemeEnd + 1] # ":"
        THEN ParseFailure
        ELSE IF scheme \in SpecialSchemes
        THEN \* the slashes and backslashes before the authority are skipped
             LET from == RunEnd(s, {"/", "\\"}, rest) + 1
                 to == RunEndBefore(s, AuthorityStop \cup {"\\"}, from)
                 a == HostOfAuthority(s, from, to)
             IN  IF \/ a.host = << >>
                    \/ ~a.portOk
                    \/ \E k \in DOMAIN a.host : a.host[k] \in ForbiddenHostChars
                 THEN ParseFailure
                 ELSE [ok |-> TRUE, protocol |-> protocol, hostname |-> toLowerCase(a.host)]
        ELSE IF LiteralAt(s, << "/", "/" >>, rest)
        THEN \* an opaque host
             LET from == rest + 2
                 to == RunEndBefore(s, AuthorityStop, from)
                 a == HostOfAuthority(s, from, to)
             IN  IF \/ ~a.portOk
                    \/ \E k \in DOMAIN a.host : a.host[k] \in ForbiddenHostChars \ {"%"}
                 THEN ParseFailure
                 ELSE [ok |-> TRUE, protocol |-> protocol, hostname |-> a.host]
        ELSE \* an opaque path: javascript:..., data:...
             [ok |-> TRUE, protocol |-> protocol, hostname |-> << >>]

(***************************************************************************)
(* VideoService.extractVideoId and VideoService.isValidYouTubeUrl.         *)
(***************************************************************************)
S_ltscript == << "<", "s", "c", "r", "i", "p", "t" >>
S_watch == << "y", "o", "u", "t", "u", "b", "e", ".", "c", "o", "m", "/", "w", "a", "t",
              "c", "h", "?", "v", "=" >>
S_short == << "y", "o", "u", "t", "u", ".", "b", "e", "/" >>
S_embedPath == << "y", "o", "u", "t", "u", "b", "e", ".", "c", "o", "m", "/", "e", "m",
                  "b", "e", "d", "/" >>
S_v == << "y", "o", "u", "t", "u", "b", "e", ".", "c", "o", "m", "/", "v", "/" >>
S_watchQuery == << "y", "o", "u", "t", "u", "b", "e", ".", "c", "o", "m", "/", "w", "a",
                   "t", "c", "h", "?" >>
S_andV == << "&", "v", "=" >>

\* [^&\n?#]
CaptureStop == {"&", "\n", "?", "#"}
\* . does not match a line terminator
LineTerminators == {"\n", "\r"}
\* [a-zA-Z0-9_-]
IdChars == Letters \cup Digits \cup {"_", "-"}
IdLength == 11

\* ([^&\n?#]+) can begin at index c.
CaptureBegins(s, c) == c <= Len(s) /\ s[c] \notin CaptureStop

\* /(?:youtube\.com\/watch\?v=|youtu\.be\/|youtube\.com\/embed\/)([^&\n?#]+)/
\* matched at index i: the index its capture starts at, or 0.
FirstPattern(s, i) ==
    LET alternatives == << S_watch, S_short, S_embedPath >>
        hits == {k \in 1..3 : LiteralAt(s, alternatives[k], i)
                                /\ CaptureBegins(s, i + Len(alternatives[k]))}
    IN  IF hits = {} THEN 0 ELSE i + Len(alternatives[Min(hits)])

\* /youtube\.com\/v\/([^&\n?#]+)/
SecondPattern(s, i) ==
    IF LiteralAt(s, S_v, i) /\ CaptureBegins(s, i + Len(S_v)) THEN i + Len(S_v) ELSE 0

\* /youtube\.com\/watch\?.*&v=([^&\n?#]+)/: .* is greedy, so of the "&v="
\* on the line the last one that a capture can follow is taken.
ThirdPattern(s, i) ==
    LET after == i + Len(S_watchQuery)
        ks == {k \in after..Len(s) :
                  /\ LiteralAt(s, S_andV, k)
                  /\ CaptureBegins(s, k + Len(S_andV))
                  /\ \A j \in after..(k - 1) : s[j] \notin LineTerminators}
    IN  IF LiteralAt(s, S_watchQuery, i) /\ ks # {} THEN Max(ks) + Len(S_andV) ELSE 0

CaptureStart(pattern, s, i) ==
    CASE pattern = 1 -> FirstPattern(s, i)
      [] pattern = 2 -> SecondPattern(s, i)
      [] pattern = 3 -> ThirdPattern(s, i)

\* url.match(pattern): match[1] of the leftmost match, or null.
Capture(pattern, url) ==
    LET starts == {i \in 1..Len(url) : CaptureStart(pattern, url, i) # 0}
    IN  IF starts = {}
        THEN null
        ELSE LET c == CaptureStart(pattern, url, Min(starts))
             IN  SubSeq(url, c, RunEndBefore(url, CaptureStop, c))

\* The format test of extractVideoId, mutated: any eleven characters pass.
AnyElevenChars(id) == Len(id) = IdLength

\* match[1].length === 11 && /^[a-zA-Z0-9_-]{11}$/.test(match[1])
IsVideoId(id) == Len(id) = IdLength /\ \A k \in DOMAIN id : id[k] \in IdChars

\* extractVideoId, mutated: of the patterns with a valid capture the last one wins.
extractVideoIdLastPattern(url) ==
    IF url = << >> THEN null
    ELSE IF includes(url, S_ltscript) \/ includes(url, S_javascript) \/ includes(url, S_data)
    THEN null
    ELSE LET valid == {p \in 1..3 : Capture(p, url) # null /\ IsVideoId(Capture(p, url))}
         IN  IF valid = {} THEN null ELSE Capture(Max(valid), url)


extractVideoId(url) ==
    IF url = << >> THEN null
    ELSE IF includes(url, S_ltscript) \/ includes(url, S_javascript) \/ includes(url, S_data)
    THEN null
    ELSE LET valid == {p \in 1..3 : Capture(p, url) # null /\ IsVideoId(Capture(p, url))}
         IN  IF valid = {} THEN null ELSE Capture(Min(valid), url)

MaxUrlLength == 2048
validDomains == { << "y", "o", "u", "t", "u", "b", "e", ".", "c", "o", "m" >>, << "y", "o",
                     "u", "t", "u", ".", "b", "e" >>, << "w", "w", "w", ".", "y", "o", "u",
                     "t", "u", "b", "e", ".", "c", "o", "m" >>, << "m", ".", "y", "o", "u",
                     "t", "u", "b", "e", ".", "c", "o", "m" >> }
DangerousProtocols == { S_javascript, S_data, S_vbscript }

\* The hostname test of isValidYouTubeUrl, mutated: the allow-listed domain
\* is looked for in the whole URL.
DomainInUrl(url, u) == \E domain \in validDomains : includes(toLowerCase(url), domain)

\* validDomains.some(domain => hostname.includes(domain))
DomainInHostname(url, u) ==
    \E domain \in validDomains : includes(toLowerCase(u.hostname), domain)

isValidYouTubeUrl(url) ==
    IF url = << >> THEN FALSE
    ELSE IF Len(url) > MaxUrlLength THEN FALSE
    ELSE LET u == ParseURL(url)
         IN  IF ~u.ok THEN FALSE
             ELSE IF \E protocol \in DangerousProtocols :
                        startsWith(toLowerCase(u.protocol), protocol)
             THEN FALSE
             ELSE DomainInHostname(url, u)

(***************************************************************************)
(* The two functions applied to URLs written as scheme, host, path,        *)
(* identifier and tail, and to one URL longer than the maximum.            *)
(***************************************************************************)
UrlSchemes == { << "h", "t", "t", "p", "s", ":", "/", "/" >>, << "h", "t", "t", "p", ":",
                   "/", "/" >>, << "j", "a", "v", "a", "s", "c", "r", "i", "p", "t",
                   ":" >>, << "J", "a", "v", "a", "S", "c", "r", "i", "p", "t", ":", "/",
                   "/" >>, << "d", "a", "t", "a", ":" >>, << " " >> }
ListedHosts ==
    { << "w", "w", "w", ".", "y", "o", "u", "t", "u", "b", "e", ".", "c", "o", "m" >>,
      << "y", "o", "u", "t", "u", "b", "e", ".", "c", "o", "m" >>,
      << "y", "o", "u", "t", "u", ".", "b", "e" >>,
      << "Y", "o", "u", "T", "u", "b", "e", ".", "c", "o", "m" >>,
      << "y", "o", "u", "t", "u", "b", "e", ".", "c", "o", "m", ".", "e", "v", "i", "l", ".", "c", "o", "m" >> }
OtherHosts ==
    { << "e", "v", "i", "l", ".", "c", "o", "m" >>,
      << "y", "o", "u", "t", "u", "b", "e", ".", "c", "o", "m", "@", "e", "v", "i", "l", ".", "c", "o", "m" >> }
UrlHosts == ListedHosts \cup OtherHosts \cup {<< >>}
UrlPaths ==
    { << "/", "w", "a", "t", "c", "h", "?", "v", "=" >>,
      << "/", "e", "m", "b", "e", "d", "/" >>,
      << "/", "v", "/" >>,
      << "/", "w", "a", "t", "c", "h", "?", "a", "=", "1", "&", "v", "=" >>,
      << "/" >>,
      << "/", "y", "o", "u", "t", "u", "b", "e", ".", "c", "o", "m" >>,
      << "/", "y", "o", "u", "t", "u", "b", "e", ".", "c", "o", "m", "/", "w", "a", "t", "c", "h", "?", "v", "=" >> }
UrlIds == { << "d", "Q", "w", "4", "w", "9", "W", "g", "X", "c", "Q" >>, << "s", "h", "o",
               "r", "t" >>, << "d", "Q", "w", "4", "w", "9", "W", "g", "X", "c", "Q",
               "x" >>, << "d", "Q", "w", "4", "w", "9", "W", "g", "X", "c", "!" >>,
               << >> }
UrlTails == { << >>, << "&", "v", "=", "a", "_", "b", "-", "c", "_", "d", "-", "e", "_",
                        "f" >>, << "#", "x" >> }

UrlParts ==
    [scheme : UrlSchemes, host : UrlHosts, path : UrlPaths,
     id : UrlIds, tail : UrlTails]

UrlOf(p) == p.scheme \o p.host \o p.path \o p.id \o p.tail

S_validUrl == << "h", "t", "t", "p", "s", ":", "/", "/", "w", "w", "w", ".", "y", "o", "u",
                 "t", "u", "b", "e", ".", "c", "o", "m", "/", "w", "a", "t", "c", "h", "?",
                 "v", "=", "d", "Q", "w", "4", "w", "9", "W", "g", "X", "c", "Q" >>

\* A well-formed watch URL of MaxUrlLength + 1 characters.
LongUrl ==
    S_validUrl \o << "&" >> \o [i \in 1..(MaxUrlLength - Len(S_validUrl)) |-> "a"]

UrlInputs == {UrlOf(p) : p \in UrlParts} \cup {LongUrl}

\* The inputs whose host is not on the allow list: the listed domain is in
\* the user name, the path or the query only, or nowhere.
OffListInputs == {UrlOf(p) : p \in {q \in UrlParts : q.host \in OtherHosts}}

(***************************************************************************)
(* VideoService.generateEmbedUrl.  A JavaScript argument is its typeof and *)
(* the string String() makes of it.                                        *)
(***************************************************************************)
E_InvalidId == "Invalid video ID provided"
E_InvalidIdFormat == "Invalid video ID format"

\* !videoId: undefined, null, '', 0 and NaN are falsy
Falsy(type, s) ==
    \/ type = "undefined"
    \/ type = "object" /\ s = << "n", "u", "l", "l" >>
    \/ type = "string" /\ s = << >>
    \/ type = "number" /\ s \in {<< "0" >>, << "N", "a", "N" >>}

\* The first guard, mutated: typeof is not looked at.
NotAStringTruthy(type, s) == Falsy(type, s)

\* !videoId || typeof videoId !== 'string'
NotAString(type, s) == Falsy(type, s) \/ type # "string"

\* The characters the application/x-www-form-urlencoded serializer writes
\* as they are, and the percent codes of the others that occur in an origin.
FormUnreserved == Letters \cup Digits \cup {"*", "-", ".", "_"}
PercentCodes == (":" :> << "%", "3", "A" >>) @@ ("/" :> << "%", "2", "F" >>)

RECURSIVE FormEncode(_)
FormEncode(s) ==
    IF s = << >> THEN << >>
    ELSE (IF Head(s) \in FormUnreserved THEN << Head(s) >>
          ELSE IF Head(s) = " " THEN << "+" >>
          ELSE PercentCodes[Head(s)]) \o FormEncode(Tail(s))

\* The object handed to new URLSearchParams, in insertion order.
EmbedParams(origin) ==
    << << << "a", "u", "t", "o", "p", "l", "a", "y" >>, << "1" >> >>,
       << << "r", "e", "l" >>, << "0" >> >>,
       << << "m", "o", "d", "e", "s", "t", "b", "r", "a", "n", "d", "i", "n", "g" >>,
             << "1" >> >>,
       << << "c", "o", "n", "t", "r", "o", "l", "s" >>, << "1" >> >>,
       << << "s", "h", "o", "w", "i", "n", "f", "o" >>, << "0" >> >>,
       << << "i", "v", "_", "l", "o", "a", "d", "_", "p", "o", "l", "i", "c", "y" >>,
             << "3" >> >>,
       << << "f", "s" >>, << "0" >> >>,
       << << "d", "i", "s", "a", "b", "l", "e", "k", "b" >>, << "1" >> >>,
       << << "p", "l", "a", "y", "s", "i", "n", "l", "i", "n", "e" >>, << "1" >> >>,
       << << "o", "r", "i", "g", "i", "n" >>, origin >>,
       << << "e", "n", "a", "b", "l", "e", "j", "s", "a", "p", "i" >>, << "0" >> >>,
       << << "w", "i", "d", "g", "e", "t", "_", "r", "e", "f", "e", "r", "r", "e", "r" >>,
             origin >> >>

RECURSIVE SerializeParams(_)
\* URLSearchParams.prototype.toString
SerializeParams(params) ==
    IF params = << >> THEN << >>
    ELSE FormEncode(Head(params)[1]) \o << "=" >> \o FormEncode(Head(params)[2])
         \o (IF Len(params) > 1 THEN << "&" >> ELSE << >>)
         \o SerializeParams(Tail(params))

S_embedUrl == << "h", "t", "t", "p", "s", ":", "/", "/", "w", "w", "w", ".", "y", "o", "u",
                 "t", "u", "b", "e", ".", "c", "o", "m", "/", "e", "m", "b", "e", "d",
                 "/" >>

Thrown(message) == [threw |-> TRUE, message |-> message, url |-> null]

generateEmbedUrl(type, videoId, origin) ==
    IF NotAString(type, videoId) THEN Thrown(E_InvalidId)
    ELSE IF ~IsVideoId(videoId) THEN Thrown(E_InvalidIdFormat)
    ELSE [threw |-> FALSE, message |-> "",
          url |-> S_embedUrl \o videoId \o << "?" >> \o SerializeParams(EmbedParams(origin))]

\* window.location.origin of the page
Origins == {<< "h", "t", "t", "p", ":", "/", "/", "l", "o", "c", "a", "l", "h", "o", "s",
               "t", ":", "5", "1", "7", "3" >>, << "h", "t", "t", "p", "s", ":", "/", "/",
               "f", "o", "c", "u", "s", "t", "u", "b", "e", ".", "a", "p", "p" >>}

S_id == << "d", "Q", "w", "4", "w", "9", "W", "g", "X", "c", "Q" >>

\* The arguments of generateEmbedUrl.
EmbedArgs ==
    [type : {"string"},
     value : {S_id, << "a", "_", "b", "-", "c", "_", "d", "-", "e", "_", "f" >>, << "0",
                       "0", "0", "0", "0", "0", "0", "0", "0", "0", "0" >>, << "d", "Q",
                       "w", "4", "w", "9", "W", "g", "X", "c" >>, << "d", "Q", "w", "4",
                       "w", "9", "W", "g", "X", "c", "Q", "x" >>,
              << "d", "Q", "w", "4", "w", "9", "W", "g", "X", "c", "!" >>, << "\"", ">",
                 "<", "s", "c", "r", "i", "p", "t", ">" >>, << "d", "Q", "w", "4", "w",
                 "9", " ", "g", "X", "c", "Q" >>, << "d", "Q", "w", "4", "w", "9", "W",
                 "g", "X", "c", "\n" >>, << ".", ".", "/", ".", ".", "/", ".", ".", "/",
                 ".", "." >>, << >>}]
    \cup [type : {"number"}, value : {<< "1", "2", "3", "4", "5", "6", "7", "8", "9", "0",
                                         "1" >>, << "0" >>, << "N", "a", "N" >>, << "4",
                                         "2" >>}]
    \cup [type : {"object"}, value : {<< "n", "u", "l", "l" >>, << "[", "o", "b", "j", "e",
                                         "c", "t", " ", "O", "b", "j", "e", "c", "t",
                                         "]" >>, << "d", "Q", "w", "4", "w", "9", "W", "g",
                                         "X", "c", "Q" >>}]
    \cup [type : {"undefined"}, value : {<< "u", "n", "d", "e", "f", "i", "n", "e", "d" >>}]
    \cup [type : {"boolean"}, value : {<< "t", "r", "u", "e" >>, << "f", "a", "l", "s",
                                          "e" >>}]

VideoInit ==
    /\ now = 0
    /\ RateIdle
    /\ UIIdle
    /\ \/ arg \in UrlInputs /\ kind = "string"
       \/ \E a \in EmbedArgs : arg = a.value /\ kind = a.type
    /\ ret = null
    /\ ret2 = null
    /\ pc = "start"

ExtractVideoId ==
    /\ pc = "start"
    /\ kind = "string"
    /\ ret' = extractVideoId(arg)
    /\ pc' = "extractVideoId"
    /\ UNCHANGED << now, rateVars, uiVars, arg, kind, ret2 >>

IsValidYouTubeUrl ==
    /\ pc = "start"
    /\ kind = "string"
    /\ ret' = isValidYouTubeUrl(arg)
    /\ pc' = "isValidYouTubeUrl"
    /\ UNCHANGED << now, rateVars, uiVars, arg, kind, ret2 >>

GenerateEmbedUrl ==
    /\ pc = "start"
    /\ \E origin \in Origins :
          ret' = [origin |-> origin] @@ generateEmbedUrl(kind, arg, origin)
    /\ pc' = "generateEmbedUrl"
    /\ UNCHANGED << now, rateVars, uiVars, arg, kind, ret2 >>

\* VideoPlayer, mutated: the invalid URL branch is missing.
VideoPlayerNoCheck(videoUrl) ==
    [screen |-> "player", videoId |-> extractVideoId(videoUrl)]

\* VideoPlayer: the screen it renders and the identifier it embeds.
VideoPlayer(videoUrl) ==
    LET videoId == extractVideoId(videoUrl)
    IN  IF videoId = null
        THEN [screen |-> "Invalid YouTube URL", videoId |-> null]
        ELSE [screen |-> "player", videoId |-> videoId]

\* VideoPlayer up to its iframe: the screen, the calls of VideoService it
\* makes and the src of the iframe (null: no iframe), on a page of the origin.
VideoPlayerFrame(videoUrl, origin) ==
    LET view == VideoPlayer(videoUrl)
        embedUrl == IF view.videoId = null
                    THEN generateEmbedUrl("object", << "n", "u", "l", "l" >>, origin)
                    ELSE generateEmbedUrl("string", view.videoId, origin)
    IN  IF view.screen # "player"
        THEN [screen |-> view.screen, calls |-> << "extractVideoId" >>,
              threw |-> FALSE, src |-> null, origin |-> origin]
        ELSE [screen |-> IF embedUrl.threw THEN "error" ELSE "player",
              calls |-> << "extractVideoId", "generateEmbedUrl" >>,
              threw |-> embedUrl.threw, src |-> embedUrl.url, origin |-> origin]

RenderVideoPlayer ==
    /\ pc = "start"
    /\ kind = "string"
    /\ \E origin \in Origins : ret' = VideoPlayerFrame(arg, origin)
    /\ pc' = "VideoPlayer"
    /\ UNCHANGED << now, rateVars, uiVars, arg, kind, ret2 >>


VideoNext ==
    ExtractVideoId \/ IsValidYouTubeUrl \/ GenerateEmbedUrl \/ RenderVideoPlayer

SpecVideo == VideoInit /\ [][VideoNext]_vars

(***************************************************************************)
(* useSecurity: validateInput, validateYouTubeUrl and shouldThrottle.      *)
(***************************************************************************)
MAX_URL_LENGTH == 2048
MAX_INPUT_LENGTH == 1000
REQUESTS_PER_MINUTE == 10
WINDOW_MS == 60000
ALLOWED_DOMAINS == { << "y", "o", "u", "t", "u", "b", "e", ".", "c", "o", "m" >>, << "y",
                        "o", "u", "t", "u", ".", "b", "e" >>, << "w", "w", "w", ".", "y",
                        "o", "u", "t", "u", "b", "e", ".", "c", "o", "m" >>, << "m", ".",
                        "y", "o", "u", "t", "u", "b", "e", ".", "c", "o", "m" >> }
BLOCKED_PROTOCOLS == << S_javascript, S_data, S_vbscript, S_file >>

S_http == << "h", "t", "t", "p", ":", "/", "/" >>
S_https == << "h", "t", "t", "p", "s", ":", "/", "/" >>

E_RateLimited == "Too many requests. Please wait a moment before trying again."
E_Empty == "Please enter a YouTube URL"
E_Required == "Input is required"
E_InputTooLong == "Input too long. Maximum 1000 characters allowed."
E_Dangerous == "Input contains potentially dangerous content"
E_NotHttp == "URL must start with http:// or https://"
E_Filename == "Invalid filename detected"
E_UrlTooLong == "URL too long"
E_Protocol == << "Protocol javascript: is not allowed", "Protocol data: is not allowed",
                 "Protocol vbscript: is not allowed", "Protocol file: is not allowed" >>
E_Domain == "Domain not allowed"
E_Format == "Invalid URL format"
E_NotYouTube == "Please enter a valid YouTube URL"

\* if (c) result.errors.push(message)
PushIf(c, message) == IF c THEN << message >> ELSE << >>

\* validateInput, mutated: it returns at its first error.
validateInputFirstError(input, type) ==
    IF input = << >>
    THEN [isValid |-> FALSE, sanitized |-> << >>, errors |-> << E_Required >>]
    ELSE LET sanitized == sanitizeInput(input, type)
             errors ==
                 IF Len(input) > MAX_INPUT_LENGTH THEN << E_InputTooLong >>
                 ELSE IF containsDangerousContent(input) THEN << E_Dangerous >>
                 ELSE IF type = "url" /\ ~startsWith(sanitized, S_http)
                            /\ ~startsWith(sanitized, S_https)
                 THEN << E_NotHttp >>
                 ELSE << >>
         IN  [isValid |-> errors = << >>, sanitized |-> sanitized, errors |-> errors]

validateInput(input, type) ==
    IF input = << >>
    THEN [isValid |-> FALSE, sanitized |-> << >>, errors |-> << E_Required >>]
    ELSE LET sanitized == sanitizeInput(input, type)
             errors ==
                 PushIf(Len(input) > MAX_INPUT_LENGTH, E_InputTooLong)
                 \o PushIf(containsDangerousContent(input), E_Dangerous)
                 \o CASE type = "url" ->
                           PushIf(/\ ~startsWith(sanitized, S_http)
                                  /\ ~startsWith(sanitized, S_https), E_NotHttp)
                      [] type = "filename" ->
                           PushIf(\/ includes(sanitized, S_dotdot)
                                  \/ includes(sanitized, << "/" >>)
                                  \/ includes(sanitized, << "\\" >>), E_Filename)
                      [] OTHER -> << >>
         IN  [isValid |-> errors = << >>, sanitized |-> sanitized, errors |-> errors]

\* SECURITY_CONFIG.BLOCKED_PROTOCOLS.find(protocol => url.toLowerCase().startsWith(protocol))
BlockedProtocol(url) ==
    LET found == {k \in DOMAIN BLOCKED_PROTOCOLS :
                     startsWith(toLowerCase(url), BLOCKED_PROTOCOLS[k])}
    IN  IF found = {} THEN 0 ELSE Min(found)

\* The try block of validateYouTubeUrl: new URL(url) and the domain test.
DomainErrors(url) ==
    LET urlObj == ParseURL(url)
    IN  IF ~urlObj.ok THEN << E_Format >>
        ELSE PushIf(~\E domain \in ALLOWED_DOMAINS :
                        includes(toLowerCase(urlObj.hostname), domain), E_Domain)

\* validateYouTubeUrl, mutated: the return after validateInput is missing.
validateYouTubeUrlNoReturn(url) ==
    LET inputValidation == validateInput(url, "url")
        errors ==
            inputValidation.errors
            \o PushIf(Len(url) > MAX_URL_LENGTH, E_UrlTooLong)
            \o (IF BlockedProtocol(url) # 0 THEN << E_Protocol[BlockedProtocol(url)] >>
                ELSE << >>)
            \o DomainErrors(url)
    IN  [isValid |-> errors = << >>, sanitized |-> inputValidation.sanitized,
         errors |-> errors]


validateYouTubeUrl(url) ==
    LET inputValidation == validateInput(url, "url")
        errors ==
            PushIf(Len(url) > MAX_URL_LENGTH, E_UrlTooLong)
            \o (IF BlockedProtocol(url) # 0 THEN << E_Protocol[BlockedProtocol(url)] >>
                ELSE << >>)
            \o DomainErrors(url)
    IN  IF ~inputValidation.isValid
        THEN [isValid |-> FALSE, sanitized |-> << >>, errors |-> inputValidation.errors]
        ELSE [isValid |-> errors = << >>, sanitized |-> inputValidation.sanitized,
              errors |-> errors]

\* shouldThrottle, mutated: a call that is not throttled takes no slot.
shouldThrottleNoSlot ==
    LET reset == now - requestWindowStart > WINDOW_MS
        count == IF reset THEN 0 ELSE requestCount
        throttled == count >= REQUESTS_PER_MINUTE
    IN  [throttled |-> throttled,
         requestWindowStart |-> IF reset THEN now ELSE requestWindowStart,
         requestCount |-> count,
         lastRequestTime |-> IF throttled THEN lastRequestTime ELSE now]


\* shouldThrottle(): its result and the refs it leaves.
shouldThrottle ==
    LET reset == now - requestWindowStart > WINDOW_MS
        count == IF reset THEN 0 ELSE requestCount
        throttled == count >= REQUESTS_PER_MINUTE
    IN  [throttled |-> throttled,
         requestWindowStart |-> IF reset THEN now ELSE requestWindowStart,
         requestCount |-> IF throttled THEN count ELSE count + 1,
         lastRequestTime |-> IF throttled THEN lastRequestTime ELSE now]

(***************************************************************************)
(* SearchBar, App and VideoPlayer.                                         *)
(***************************************************************************)
\* What handleSearch does once shouldThrottle has answered: the error it
\* sets, the query it hands to onSearch (null: onSearch is not invoked) and
\* the calls it makes.
Rejected(errors, ran) == [error |-> errors, query |-> null, ran |-> ran]

\* handleSearch from "const validation = validateYouTubeUrl(searchValue)" on.
Validated(validation) ==
    IF ~validation.isValid
    THEN Rejected(validation.errors, << "shouldThrottle", "trim",
                                        "validateYouTubeUrl" >>)
    ELSE IF ~isValidYouTubeUrl(validation.sanitized)
    THEN Rejected(<< E_NotYouTube >>,
                  << "shouldThrottle", "trim", "validateYouTubeUrl",
                     "isValidYouTubeUrl" >>)
    ELSE [error |-> << >>, query |-> validation.sanitized,
          ran |-> << "shouldThrottle", "trim", "validateYouTubeUrl",
                     "isValidYouTubeUrl", "onSearch" >>]

\* handleSearch, mutated: the return of the rate-limit branch is missing.
handleSearchNoReturn(throttled, value) ==
    IF trim(value) = << >>
    THEN Rejected(<< E_Empty >>, << "shouldThrottle", "trim" >>)
    ELSE CHOOSE r \in {Validated(validation) :
                        validation \in {validateYouTubeUrl(value)}} : TRUE

handleSearch(throttled, value) ==
    IF throttled
    THEN Rejected(<< E_RateLimited >>, << "shouldThrottle" >>)
    ELSE IF trim(value) = << >>
    THEN Rejected(<< E_Empty >>, << "shouldThrottle", "trim" >>)
    ELSE CHOOSE r \in {Validated(validation) :
                        validation \in {validateYouTubeUrl(value)}} : TRUE

\* App: if (currentVideoUrl) the VideoPlayer is rendered, else the SearchBar.
PlayerShown == currentVideoUrl # null /\ currentVideoUrl # << >>

\* A valid watch URL of MAX_INPUT_LENGTH + 1 characters.
LongInput ==
    S_validUrl \o << "&" >> \o [i \in 1..(MAX_INPUT_LENGTH - Len(S_validUrl)) |-> "a"]

\* What the user types into the search field.
SearchInputs ==
    { S_validUrl,
      << " ", "h", "t", "t", "p", "s", ":", "/", "/", "y", "o", "u", "t", "u", ".", "b",
         "e", "/", "d", "Q", "w", "4", "w", "9", "W", "g", "X", "c", "Q", " " >>,
      << "h", "t", "t", "p", "s", ":", "/", "/", "w", "w", "w", ".", "y", "o", "u", "t",
         "u", "b", "e", ".", "c", "o", "m", "/" >>,
      << "h", "t", "t", "p", "s", ":", "/", "/", "e", "v", "i", "l", ".", "c", "o", "m",
         "/", "y", "o", "u", "t", "u", "b", "e", ".", "c", "o", "m" >>,
      << "j", "a", "v", "a", "s", "c", "r", "i", "p", "t", ":", "a", "l", "e", "r", "t",
         "(", "1", ")" >>,
      << "h", "t", "t", "p", ":", "/", "/", "e", "v", "i", "l", ".", "c", "o", "m", "/",
         "?", "o", "n", "x", "=", "1" >>,
      << "h", "t", "t", "p", "s", ":", "/", "/" >>,
      << " ", " " >>,
      LongInput }

\* handleSearch on every input of the search field, computed once.
Submission ==
    [throttled \in BOOLEAN, value \in SearchInputs \cup {<< >>} |->
        handleSearch(throttled, value)]

NoSubmit == [returned |-> FALSE, throttled |-> FALSE, accepted |-> FALSE, ran |-> << >>,
             urlBefore |-> null]

\* SearchBar.handleInputChange
HandleInputChange ==
    /\ ~PlayerShown
    /\ \E value \in SearchInputs \cup {<< >>} :
          /\ value # searchValue
          /\ searchValue' = value
    /\ error' = << >>
    /\ submit' = NoSubmit
    /\ UNCHANGED << now, rateVars, pureVars, requestCount, requestWindowStart,
                    lastRequestTime, searchQuery, currentVideoUrl, passLog >>

\* SearchBar.handleSearch, with App.handleSearch as its onSearch.
HandleSearch ==
    \E t \in {shouldThrottle} : \E r \in {Submission[t.throttled, searchValue]} :
        /\ ~PlayerShown
        /\ Len(passLog) < MaxSubmits
        /\ requestWindowStart' = t.requestWindowStart
        /\ requestCount' = t.requestCount
        /\ lastRequestTime' = t.lastRequestTime
        /\ error' = r.error
        /\ IF r.query = null
           THEN UNCHANGED << searchQuery, currentVideoUrl >>
           ELSE searchQuery' = r.query /\ currentVideoUrl' = r.query
        /\ passLog' = IF t.throttled THEN passLog ELSE Append(passLog, now)
        /\ submit' = [returned |-> TRUE, throttled |-> t.throttled,
                      accepted |-> r.query # null, ran |-> r.ran,
                      urlBefore |-> currentVideoUrl]
        /\ UNCHANGED << now, rateVars, pureVars, searchValue >>

\* App.handleVideoCancel: the SearchBar is mounted again, with new state and
\* new useSecurity refs.
HandleVideoCancel ==
    /\ PlayerShown
    /\ currentVideoUrl' = null
    /\ searchValue' = << >>
    /\ error' = << >>
    /\ requestCount' = 0
    /\ lastRequestTime' = 0
    /\ requestWindowStart' = now
    /\ submit' = NoSubmit
    /\ UNCHANGED << now, rateVars, pureVars, searchQuery, passLog >>

UITick ==
    /\ AdvanceClock(MaxUITime)
    /\ submit' = NoSubmit
    /\ UNCHANGED << rateVars, pureVars, requestCount, requestWindowStart, lastRequestTime,
                    searchValue, error, searchQuery, currentVideoUrl, passLog >>

\* The first render: App shows the SearchBar, whose refs are initialised.
Init ==
    /\ now = 0
    /\ RateIdle
    /\ PureIdle
    /\ requestCount = 0
    /\ requestWindowStart = now
    /\ lastRequestTime = 0
    /\ searchValue = << >>
    /\ error = << >>
    /\ searchQuery = << >>
    /\ currentVideoUrl = null
    /\ passLog = << >>
    /\ submit = NoSubmit

Next == HandleInputChange \/ HandleSearch \/ HandleVideoCancel \/ UITick

Spec == Init /\ [][Next]_vars

\* The behaviours in which the player is never left: one SearchBar instance,
\* mounted once.
NextMounted == HandleInputChange \/ HandleSearch \/ UITick

SpecMounted == Init /\ [][NextMounted]_vars


(***************************************************************************)
(* Claims about the submission entry point, checked under Spec.            *)
(***************************************************************************)
Range(f) == {f[k] : k \in DOMAIN f}

\* C3: the rate-limit step of handleSearch is a sliding window: in every
\* interval of WINDOW_MS, whatever its start, at most REQUESTS_PER_MINUTE
\* submissions pass it (the interval is taken to end at a passing submission).
C3_SlidingWindow ==
    \A i \in DOMAIN passLog :
        Cardinality({j \in DOMAIN passLog :
                        /\ passLog[j] > passLog[i] - WINDOW_MS
                        /\ passLog[j] <= passLog[i]}) <= REQUESTS_PER_MINUTE

\* C4: the rate-limit state of the submission entry point lasts as long as the
\* process: nothing but the passage of time takes back a submission counted in
\* the current window (no UI event lowers the count while the clock stands
\* still inside the window).
C4_CountPersists ==
    [][(now' = now /\ now - requestWindowStart <= WINDOW_MS)
          => requestCount' >= requestCount]_vars

\* C5: a throttled submission returns at once: the rate-limit error is the
\* only error, no later check is run, onSearch is not invoked and the current
\* video URL is as before.
C5_ThrottledReturnsAtOnce ==
    (submit.returned /\ submit.throttled) =>
        /\ error = << E_RateLimited >>
        /\ submit.ran = << "shouldThrottle" >>
        /\ ~submit.accepted
        /\ currentVideoUrl = submit.urlBefore

\* C5, its case: a valid URL is submitted and throttled.
C5_Witness ==
    /\ submit.returned
    /\ submit.throttled
    /\ searchValue = S_validUrl
    /\ requestCount = REQUESTS_PER_MINUTE

E_NoReference == "NoReferenceFound"

\* The checks of a submission that fail on an input, each taken alone:
\* dangerous content, length, blocked protocol, domain, reference.
FailingChecks(value) ==
    Range(PushIf(containsDangerousContent(value), E_Dangerous))
    \cup Range(PushIf(Len(value) > MAX_INPUT_LENGTH, E_InputTooLong))
    \cup Range(PushIf(Len(value) > MAX_URL_LENGTH, E_UrlTooLong))
    \cup Range(PushIf(BlockedProtocol(value) # 0, "Protocol not allowed"))
    \cup Range(DomainErrors(value))
    \cup Range(PushIf(extractVideoId(sanitizeInput(value, "url")) = null, E_NoReference))

FailedChecks == [value \in SearchInputs |-> FailingChecks(value)]

\* The inputs that handleSearch does not answer with 'Please enter a YouTube URL'.
NonBlank == {value \in SearchInputs : trim(value) # << >>}

\* The messages of the blocked protocol check are one check.
Reported(errors) ==
    {IF message \in Range(E_Protocol) THEN "Protocol not allowed" ELSE message :
        message \in Range(errors)}

\* C6, as claimed: for a submission of a non-blank input that passes the
\* rate-limit step, every failing check among dangerous content, length,
\* blocked protocol, domain and reference contributes its error.
C6_EveryFailingCheckReported ==
    (submit.returned /\ ~submit.throttled /\ searchValue \in NonBlank) =>
        FailedChecks[searchValue] \subseteq Reported(error)

\* The errors of validateInput's checks and of validateYouTubeUrl's own.
InputStage(value) ==
    PushIf(Len(value) > MAX_INPUT_LENGTH, E_InputTooLong)
    \o PushIf(containsDangerousContent(value), E_Dangerous)
    \o PushIf(/\ ~startsWith(sanitizeInput(value, "url"), S_http)
              /\ ~startsWith(sanitizeInput(value, "url"), S_https), E_NotHttp)

UrlStage(value) ==
    PushIf(Len(value) > MAX_URL_LENGTH, E_UrlTooLong)
    \o PushIf(BlockedProtocol(value) # 0, E_Protocol[Max({1, BlockedProtocol(value)})])
    \o DomainErrors(value)

StagedErrors ==
    [value \in SearchInputs |->
        IF InputStage(value) # << >> THEN InputStage(value)
        ELSE IF UrlStage(value) # << >> THEN UrlStage(value)
        ELSE PushIf(~isValidYouTubeUrl(sanitizeInput(value, "url")), E_NotYouTube)]

\* C6, amended: the checks run in stages; the errors of a stage are reported
\* together and a stage with an error ends the validation.  Stage 1: input
\* longer than 1000, dangerous content, sanitized value without http:// or
\* https://.  Stage 2: URL longer than 2048, blocked protocol, domain or URL
\* format.  Stage 3: isValidYouTubeUrl.  No reference is extracted.
C6_ErrorsByStage ==
    (submit.returned /\ ~submit.throttled /\ searchValue \in NonBlank) =>
        error = StagedErrors[searchValue]

\* C6, its case: two errors of the first stage are reported together and the
\* failing domain check of the second stage is not.
C6_Witness ==
    /\ submit.returned
    /\ ~submit.throttled
    /\ error = << E_Dangerous, E_NotHttp >>
    /\ E_Domain \in FailedChecks[searchValue]

\* The URLs a submission can hand to App, and what the VideoPlayer and
\* isValidYouTubeUrl make of each.
Sanitized == [value \in SearchInputs |-> sanitizeInput(value, "url")]
SanitizedInputs == Range(Sanitized)
Player == [url \in SanitizedInputs |-> VideoPlayer(url)]
Reference == [url \in SanitizedInputs |-> extractVideoId(url)]
Allowed == [url \in SanitizedInputs |-> isValidYouTubeUrl(url)]

\* C7, as claimed: a submission is accepted only if a reference of 11
\* characters of [a-zA-Z0-9_-] can be extracted from it.
C7_AcceptedOnlyWithReference ==
    (submit.returned /\ submit.accepted) => Reference[currentVideoUrl] # null

\* C7, amended: a submission is accepted only if nothing is left in error and
\* its sanitized value, which App takes as the video URL, is an allowed
\* YouTube URL; no reference is needed at submission time.  The VideoPlayer
\* extracts the reference: it shows the player only when there is one, and
\* 'Invalid YouTube URL' with nothing embedded when there is none.
C7_AcceptedIsAllowedUrl ==
    (submit.returned /\ submit.accepted) =>
        /\ error = << >>
        /\ PlayerShown
        /\ currentVideoUrl = Sanitized[searchValue]
        /\ searchQuery = currentVideoUrl
        /\ Allowed[currentVideoUrl]
        /\ Reference[currentVideoUrl] # null =>
              /\ Player[currentVideoUrl].screen = "player"
              /\ Player[currentVideoUrl].videoId = Reference[currentVideoUrl]
        /\ Reference[currentVideoUrl] = null =>
              /\ Player[currentVideoUrl].screen = "Invalid YouTube URL"
              /\ Player[currentVideoUrl].videoId = null

\* C7, its case: an input on an allow-listed domain without a reference is
\* accepted and the VideoPlayer shows 'Invalid YouTube URL'.
C7_Witness ==
    /\ submit.returned
    /\ submit.accepted
    /\ Reference[currentVideoUrl] = null
    /\ Player[currentVideoUrl].screen = "Invalid YouTube URL"


(***************************************************************************)
(* Claims about VideoService, checked under SpecVideo.                     *)
(***************************************************************************)
S_shortUrl == << "h", "t", "t", "p", "s", ":", "/", "/", "y", "o", "u", "t", "u", "b", "e",
                 ".", "c", "o", "m", "/", "w", "a", "t", "c", "h", "?", "v", "=", "s", "h",
                 "o", "r", "t" >>
S_evilUrl == << "h", "t", "t", "p", "s", ":", "/", "/", "e", "v", "i", "l", ".", "c", "o",
                "m", "/", "y", "o", "u", "t", "u", "b", "e", ".", "c", "o", "m" >>

\* C9: extractVideoId returns null or a string of exactly 11 characters of
\* [a-zA-Z0-9_-] that is the whole capture of one of its patterns; a capture
\* of another length or character set is never cut or coerced into an
\* identifier, and 'https://youtube.com/watch?v=short' gives null.
C9_VideoIdOrNull ==
    pc = "extractVideoId" =>
        /\ \/ ret = null
           \/ /\ Len(ret) = IdLength
              /\ \A k \in DOMAIN ret : ret[k] \in IdChars
              /\ \E p \in 1..3 : Capture(p, arg) = ret
        /\ arg = S_shortUrl => ret = null

\* C9, its case: a capture of 12 characters whose first 11 are an identifier
\* gives null.
C9_Witness ==
    /\ pc = "extractVideoId"
    /\ ret = null
    /\ Capture(1, arg) # null
    /\ Len(Capture(1, arg)) = IdLength + 1
    /\ \A k \in 1..IdLength : Capture(1, arg)[k] \in IdChars

\* C10: isValidYouTubeUrl returns false when the URL does not parse, when it
\* is longer than 2048 characters and when its scheme is javascript:, data:
\* or vbscript:; it returns true only when the parsed, lower-cased hostname
\* contains an allow-listed domain, never for a domain that is only in the
\* user name, path, query or fragment ('https://evil.com/youtube.com').
C10_ValidOnlyByHostname ==
    pc = "isValidYouTubeUrl" =>
        LET u == ParseURL(arg)
        IN  /\ ~u.ok => ret = FALSE
            /\ Len(arg) > MaxUrlLength => ret = FALSE
            /\ (u.ok /\ u.protocol \in DangerousProtocols) => ret = FALSE
            /\ ret = TRUE =>
                  /\ u.ok
                  /\ \E domain \in validDomains : includes(toLowerCase(u.hostname), domain)
            /\ arg \in OffListInputs => ret = FALSE

\* C10, its case: 'https://evil.com/youtube.com' is rejected.
C10_Witness == pc = "isValidYouTubeUrl" /\ arg = S_evilUrl /\ ret = FALSE

\* The query string of the embed URL generateEmbedUrl makes of another
\* reference on the same page.
QueryOfOther(origin) ==
    LET other == generateEmbedUrl("string", << "a", "_", "b", "-", "c", "_", "d", "-", "e",
                                               "_", "f" >>, origin).url
    IN  SubSeq(other, Len(S_embedUrl) + IdLength + 1, Len(other))

\* C11: generateEmbedUrl throws, and makes no URL, for every argument that is
\* not a string of 11 characters of [a-zA-Z0-9_-]; for a valid reference it
\* returns 'https://www.youtube.com/embed/<ref>?' and a parameter set that is
\* the same for every reference and holds enablejsapi=0, rel=0 and
\* disablekb=1, so the reference is the only text of the caller in the URL.
C11_EmbedUrlOrError ==
    pc = "generateEmbedUrl" =>
        IF kind = "string" /\ Len(arg) = IdLength /\ \A k \in DOMAIN arg : arg[k] \in IdChars
        THEN /\ ~ret.threw
             /\ ret.url = S_embedUrl \o arg \o QueryOfOther(ret.origin)
             /\ Head(QueryOfOther(ret.origin)) = "?"
             /\ \A p \in {<< "e", "n", "a", "b", "l", "e", "j", "s", "a", "p", "i", "=",
                             "0" >>, << "r", "e", "l", "=", "0" >>, << "d", "i", "s", "a",
                             "b", "l", "e", "k", "b", "=", "1" >>} :
                   includes(<< "&" >> \o Tail(QueryOfOther(ret.origin)) \o << "&" >>,
                            << "&" >> \o p \o << "&" >>)
        ELSE /\ ret.threw
             /\ ret.message \in {E_InvalidId, E_InvalidIdFormat}
             /\ ret.url = null

\* C11, its case: the number 12345678901, whose decimal form has the shape of
\* a reference, is refused.
C11_Witness ==
    /\ pc = "generateEmbedUrl"
    /\ kind = "number"
    /\ arg = << "1", "2", "3", "4", "5", "6", "7", "8", "9", "0", "1" >>
    /\ ret.threw

(***************************************************************************)
(* SecurityUtils.validateFile.                                             *)
(***************************************************************************)
DefaultMaxSize == 100 * 1024 * 1024
MegaByte == 1024 * 1024

E_NoFile == << "No file provided" >>

\* `File size exceeds maximum allowed size of ${Math.round(maxSize / (1024 * 1024))}MB`
E_FileSize(maxSize) ==
    << "File size exceeds maximum allowed size of ",
       (2 * maxSize + MegaByte) \div (2 * MegaByte), "MB" >>

\* `File type ${file.type} is not allowed`
E_FileType(type) == << "File type ", type, " is not allowed" >>

E_FileName == << "Invalid filename detected" >>

\* Array.prototype.includes
ArrayIncludes(array, x) == \E k \in DOMAIN array : array[k] = x

\* !file
NoFile == [present |-> FALSE, size |-> 0, type |-> "", name |-> << >>]

\* The three checks of a file that is there, in the order of the code.
FileChecks(file, allowedTypes, maxSize) ==
    << << file.size > maxSize, E_FileSize(maxSize) >>,
       << Len(allowedTypes) > 0 /\ ~ArrayIncludes(allowedTypes, file.type),
          E_FileType(file.type) >>,
       << \/ includes(file.name, S_dotdot)
          \/ includes(file.name, << "/" >>)
          \/ includes(file.name, << "\\" >>), E_FileName >> >>

\* validateFile, mutated: it returns at its first error.
validateFileFirstError(file, allowedTypes, maxSize) ==
    LET checks == FileChecks(file, allowedTypes, maxSize)
        failing == {k \in DOMAIN checks : checks[k][1]}
        errors == IF ~file.present THEN << E_NoFile >>
                  ELSE IF failing = {} THEN << >>
                  ELSE << checks[Min(failing)][2] >>
    IN  [isValid |-> file.present /\ errors = << >>, errors |-> errors]

validateFile(file, allowedTypes, maxSize) ==
    LET checks == FileChecks(file, allowedTypes, maxSize)
        errors == IF ~file.present THEN << E_NoFile >>
                  ELSE PushIf(checks[1][1], checks[1][2])
                       \o PushIf(checks[2][1], checks[2][2])
                       \o PushIf(checks[3][1], checks[3][2])
    IN  [isValid |-> file.present /\ errors = << >>, errors |-> errors]

\* The arguments of validateFile.
MaxSizes == {DefaultMaxSize, MegaByte + MegaByte \div 2, 0}
FileTypes == {"video/mp4", "text/html", ""}
FileNames == {<< "a", ".", "m", "p", "4" >>, << ".", ".", "/", "a", ".", "m", "p", "4" >>,
                 << "a", "/", "b", ".", "m", "p", "4" >>, << "a", "\\", "b" >>, << "a",
                 ".", ".", "m", "p", "4" >>, << ".", "." >>, << ".", "a", "." >>, << >>}
AllowedTypeLists == {<< >>, << "video/mp4", "video/webm" >>, << "text/html" >>}

Files(maxSize) ==
    [present : {TRUE}, size : {0, maxSize, maxSize + 1}, type : FileTypes,
     name : FileNames] \cup {NoFile}

FileInit ==
    /\ now = 0
    /\ RateIdle
    /\ UIIdle
    /\ \E maxSize \in MaxSizes : \E file \in Files(maxSize) :
       \E allowedTypes \in AllowedTypeLists :
          arg = [file |-> file, allowedTypes |-> allowedTypes, maxSize |-> maxSize]
    /\ kind = "none"
    /\ ret = null
    /\ ret2 = null
    /\ pc = "start"

ValidateFile ==
    /\ pc = "start"
    /\ ret' = validateFile(arg.file, arg.allowedTypes, arg.maxSize)
    /\ pc' = "validateFile"
    /\ UNCHANGED << now, rateVars, uiVars, arg, kind, ret2 >>

FileNext == ValidateFile

SpecFile == FileInit /\ [][FileNext]_vars

\* C12: validateFile makes its three checks each on its own and reports every
\* violation: for a file that is there the size error is in the list iff
\* size > maxSize, the type error iff allowedTypes is not empty and does not
\* hold the type, the name error iff the name holds '..', '/' or '\'; a
\* missing file gives one error and nothing else; isValid iff no error.
C12_EveryViolationReported ==
    pc = "validateFile" =>
        LET file == arg.file
            reported == {ret.errors[k] : k \in DOMAIN ret.errors}
            named == \E i \in 1..Len(file.name) :
                        \/ file.name[i] \in {"/", "\\"}
                        \/ i < Len(file.name) /\ file.name[i] = "." /\ file.name[i + 1] = "."
        IN  /\ ret.isValid <=> ret.errors = << >>
            /\ Cardinality(reported) = Len(ret.errors)
            /\ ~file.present => ret.errors = << E_NoFile >>
            /\ file.present =>
                  /\ E_NoFile \notin reported
                  /\ E_FileSize(arg.maxSize) \in reported <=> file.size > arg.maxSize
                  /\ E_FileType(file.type) \in reported <=>
                        /\ arg.allowedTypes # << >>
                        /\ \A k \in DOMAIN arg.allowedTypes : arg.allowedTypes[k] # file.type
                  /\ E_FileName \in reported <=> named

\* C12, its case: a file that fails the three checks gets the three errors.
C12_Witness ==
    /\ pc = "validateFile"
    /\ arg.file.present
    /\ arg.file.size > arg.maxSize
    /\ Len(ret.errors) = 3
    /\ ~ret.isValid

(***************************************************************************)
(* SecurityUtils.containsDangerousContent as a function of its argument.   *)
(***************************************************************************)
TagNames == {S_script, S_iframe, S_object, S_embed}

\* The pieces the inputs are put together from: an opening, attributes, the
\* end of the opening tag, a body and a closing tag.
DangerParts ==
    [open : {<< "<", "s", "c", "r", "i", "p", "t" >>, << "<", "S", "C", "R", "I", "P",
                "T" >>, << "<", "i", "f", "r", "a", "m", "e" >>, << "<", "o", "b", "j",
                "e", "c", "t" >>, << "<", "e", "m", "b", "e", "d" >>, << "<", "s", "c",
                "r", "i", "p", "t", "s" >>, << "<", "b" >>},
     attrs : {<< >>, << " ", "s", "r", "c", "=", "x" >>},
     gt : {<< >>, << ">" >>},
     body : {<< >>, << "a", "l", "e", "r", "t", "(", "1", ")" >>, << "<", "i", ">" >>},
     close : {<< >>, << "<", "/", "s", "c", "r", "i", "p", "t", ">" >>, << "<", "/", "S",
                        "c", "R", "i", "P", "t", ">" >>, << "<", "/", "i", "f", "r", "a",
                        "m", "e", ">" >>, << "<", "/", "o", "b", "j", "e", "c", "t",
                        ">" >>, << "<", "/", "e", "m", "b", "e", "d", ">" >>,
              << "<", "/", "s", "c", "r", "i", "p", "t", " ", ">" >>}]

DangerOf(p) == p.open \o p.attrs \o p.gt \o p.body \o p.close

DangerInputs ==
    {DangerOf(p) : p \in DangerParts}
    \cup {<< "j", "a", "v", "a", "s", "c", "r", "i", "p", "t", ":", "a", "l", "e", "r",
             "t", "(", "1", ")" >>, << "J", "a", "V", "a", "S", "c", "R", "i", "P", "t",
             ":", "x" >>, << "a", " ", "d", "a", "t", "a", ":", "t", "e", "x", "t", "/",
             "h", "t", "m", "l" >>, << "V", "B", "S", "c", "r", "i", "p", "t", ":",
             "x" >>,
          << "<", "a", " ", "o", "n", "c", "l", "i", "c", "k", "=", "x", ">" >>, << "<",
             "a", " ", "O", "N", "L", "O", "A", "D", " ", "=", " ", "x", ">" >>, << "o",
             "n", "=", "x" >>, << "o", "n", " ", "=", "x" >>, << "c", "o", "n", "f", "e",
             "r", "e", "n", "c", "e", "=", "1" >>, << "j", "a", "v", "a", " ", "s", "c",
             "r", "i", "p", "t", ":" >>,
          << "h", "t", "t", "p", "s", ":", "/", "/", "w", "w", "w", ".", "y", "o", "u",
             "t", "u", "b", "e", ".", "c", "o", "m", "/", "w", "a", "t", "c", "h", "?",
             "v", "=", "d", "Q", "w", "4", "w", "9", "W", "g", "X", "c", "Q" >>, << >>}

DangerInit ==
    /\ now = 0
    /\ RateIdle
    /\ UIIdle
    /\ arg \in DangerInputs
    /\ kind = "string"
    /\ ret = null
    /\ ret2 = null
    /\ pc = "start"

ContainsDangerousContent ==
    /\ pc = "start"
    /\ ret' = containsDangerousContent(arg)
    /\ pc' = "containsDangerousContent"
    /\ UNCHANGED << now, rateVars, uiVars, arg, kind, ret2 >>

DangerNext == ContainsDangerousContent

SpecDanger == DangerInit /\ [][DangerNext]_vars

\* An opening tag <name ...>, in any letter case, with or without attributes
\* before its '>'.
HasTag(s, name) ==
    \E i \in 1..Len(s) :
        /\ LiteralAtCI(s, << "<" >> \o name, i)
        /\ i + Len(name) + 1 <= Len(s)
        /\ s[i + Len(name) + 1] \notin WordChars
        /\ \E j \in (i + Len(name) + 1)..Len(s) :
              /\ s[j] = ">"
              /\ \A k \in (i + Len(name) + 1)..(j - 1) : s[k] # "<"

\* on<word>=
HasEventHandler(s) ==
    \E i \in 1..Len(s) : \E j \in (i + 3)..Len(s) :
        /\ LiteralAtCI(s, S_on, i)
        /\ s[j] = "="
        /\ \E w \in (i + 2)..(j - 1) :
              /\ \A k \in (i + 2)..w : s[k] \in WordChars
              /\ \A k \in (w + 1)..(j - 1) : s[k] \in WhiteSpace

\* C13: containsDangerousContent returns true for every input that holds a
\* script tag, 'javascript:', 'data:', 'vbscript:', an event handler
\* on<word>= or an iframe, object or embed tag, in any letter case, with or
\* without attributes before the '>' of the tag.
C13_FlagsEveryPattern ==
    pc = "containsDangerousContent" =>
        /\ ret \in BOOLEAN
        /\ (\/ \E name \in TagNames : HasTag(arg, name)
            \/ \E p \in {S_javascript, S_data, S_vbscript} : includes(toLowerCase(arg), p)
            \/ HasEventHandler(arg)) => ret = TRUE

(***************************************************************************)
(* Callers of the two rate limiters.  JavaScript runs a synchronous call   *)
(* to completion: isRateLimited and shouldThrottle have no await, so the   *)
(* calls of the event handlers and callbacks that use them interleave as   *)
(* whole calls, in any order and at any instants.                          *)
(***************************************************************************)
CallerIsRateLimited == isRateLimited("default")

CallerShouldThrottle ==
    \E t \in {shouldThrottle} :
        /\ Len(passLog) < MaxSubmits
        /\ requestWindowStart' = t.requestWindowStart
        /\ requestCount' = t.requestCount
        /\ lastRequestTime' = t.lastRequestTime
        /\ passLog' = IF t.throttled THEN passLog ELSE Append(passLog, now)
        /\ submit' = [returned |-> TRUE, throttled |-> t.throttled, accepted |-> FALSE,
                      ran |-> << "shouldThrottle" >>, urlBefore |-> currentVideoUrl]
        /\ UNCHANGED << now, rateVars, pureVars, searchValue, error, searchQuery,
                        currentVideoUrl >>

CallersNext == CallerIsRateLimited \/ CallerShouldThrottle \/ RateTick

SpecCallers == RateInit /\ [][CallersNext]_vars

\* The admitted calls of a window are within the ceiling: for isRateLimited
\* the window that ends at an admitted call, for shouldThrottle the window
\* that began at requestWindowStart.
WithinCeiling ==
    /\ \A i \in DOMAIN admitted["default"] :
          LiveAdmitted("default", admitted["default"][i]) <= maxRequestsPerWindow
    /\ Cardinality({j \in DOMAIN passLog : passLog[j] >= requestWindowStart})
          <= REQUESTS_PER_MINUTE

C16_FirstValidPattern ==
    pc = "extractVideoId" =>
        LET suspicious == \E p \in {<< "<", "s", "c", "r", "i", "p", "t" >>, << "j", "a",
                                       "v", "a", "s", "c", "r", "i", "p", "t", ":" >>,
                                       << "d", "a", "t", "a", ":" >>} : includes(arg, p)
            captured(p) == /\ Capture(p, arg) # null
                           /\ Len(Capture(p, arg)) = IdLength
                           /\ \A k \in 1..IdLength : Capture(p, arg)[k] \in IdChars
        IN  IF suspicious THEN ret = null
            ELSE \/ \E p \in 1..3 : /\ captured(p)
                                    /\ \A q \in 1..(p - 1) : ~captured(q)
                                    /\ ret = Capture(p, arg)
                 \/ ret = null /\ \A p \in 1..3 : ~captured(p)

\* C16, its case: the first and the third pattern capture two different
\* identifiers and the first is returned.
C16_Witness ==
    /\ pc = "extractVideoId"
    /\ Capture(1, arg) = << "d", "Q", "w", "4", "w", "9", "W", "g", "X", "c", "Q" >>
    /\ Capture(3, arg) = << "a", "_", "b", "-", "c", "_", "d", "-", "e", "_", "f" >>
    /\ ret = << "d", "Q", "w", "4", "w", "9", "W", "g", "X", "c", "Q" >>

(***************************************************************************)
(* useSecurity.validateYouTubeUrl as a function of its argument.           *)
(***************************************************************************)
ValidateInputs ==
    SearchInputs \cup UrlInputs
    \cup {<< "h", "t", "t", "p", "s", ":", "/", "/", "w", "w", "w", ".", "y", "o", "u",
             "t", "u", "b", "e", ".", "c", "o", "m", "/", "w", "a", "t", "c", "h", "?",
             "v", "=", "d", "Q", "w", "4", "w", "9", "W", "g", "X", "c", "Q", "&", "o",
             "n", "x", "=", "1" >>,
          << " ", " ", "h", "t", "t", "p", "s", ":", "/", "/", "w", "w", "w", ".", "y",
             "o", "u", "t", "u", "b", "e", ".", "c", "o", "m", "/", "w", "a", "t", "c",
             "h", "?", "v", "=", "d", "Q", "w", "4", "w", "9", "W", "g", "X", "c", "Q",
             "&", "t", "=", "1", "\n" >>,
          << "h", "t", "t", "p", "s", ":", "/", "/", "w", "w", "w", ".", "y", "o", "u",
             "t", "u", "b", "e", ".", "c", "o", "m", "/", "w", "a", "t", "c", "h", "?",
             "v", "=", "d", "Q", "w", "4", "w", "9", "W", "g", "X", "c", "Q", "&", "u",
             "=", "d", "a", "t", "a", ":", "x" >>,
          << "h", "t", "t", "p", "s", ":", "/", "/", "w", "w", "w", ".", "y", "o", "u",
             "t", "u", "b", "e", ".", "c", "o", "m", "/", "<", "s", "c", "r", "i", "p",
             "t", ">", "x", "<", "/", "s", "c", "r", "i", "p", "t", ">", "w", "a", "t",
             "c", "h" >>,
          << "h", "t", "t", "p", "s", ":", "/", "/", "w", "w", "w", ".", "y", "o", "u",
             "t", "u", "b", "e", ".", "c", "o", "m", "/", "<", "s", "c", "r", "i", "p",
             "t", ">", "w", "a", "t", "c", "h" >>,
          << " ", "j", "a", "v", "a", "s", "c", "r", "i", "p", "t", ":", "h", "t", "t",
             "p", "s", ":", "/", "/", "w", "w", "w", ".", "y", "o", "u", "t", "u", "b",
             "e", ".", "c", "o", "m", "/" >>,
          << "j", "a", "v", "a", "s", "c", "r", "i", "p", "t", ":", "h", "t", "t", "p",
             "s", ":", "/", "/", "w", "w", "w", ".", "y", "o", "u", "t", "u", "b", "e",
             ".", "c", "o", "m", "/" >>,
          << "v", "b", "s", "c", "r", "i", "p", "t", ":", "h", "t", "t", "p", "s", ":",
             "/", "/", "w", "w", "w", ".", "y", "o", "u", "t", "u", "b", "e", ".", "c",
             "o", "m", "/" >>,
          << "f", "i", "l", "e", ":", "/", "/", "/", "w", "w", "w", ".", "y", "o", "u",
             "t", "u", "b", "e", ".", "c", "o", "m", "/", "x" >>,
          << "F", "I", "L", "E", ":", "/", "/", "w", "w", "w", ".", "y", "o", "u", "t",
             "u", "b", "e", ".", "c", "o", "m", "/", "x" >>,
          << "h", "t", "t", "p", ":", "/", "/", "y", "o", "u", "t", "u", ".", "b", "e",
             "/", "a", " ", "b" >>,
          << >>}

ValidateInit ==
    /\ now = 0
    /\ RateIdle
    /\ UIIdle
    /\ arg \in ValidateInputs
    /\ kind = "string"
    /\ ret = null
    /\ ret2 = null
    /\ pc = "start"

ValidateYouTubeUrl ==
    /\ pc = "start"
    /\ ret' = validateYouTubeUrl(arg)
    /\ pc' = "validateYouTubeUrl"
    /\ UNCHANGED << now, rateVars, uiVars, arg, kind, ret2 >>

ValidateNext == ValidateYouTubeUrl

SpecValidate == ValidateInit /\ [][ValidateNext]_vars

\* C18: when validateYouTubeUrl returns isValid = true, its sanitized value
\* is the raw input without its leading and trailing white space: whatever
\* the url sanitizer strips from an input, containsDangerousContent flags
\* on the raw input.
C18_ValidIsOnlyTrimmed ==
    pc = "validateYouTubeUrl" =>
        /\ ret.isValid => ret.sanitized = trim(arg)
        /\ sanitizeInput(arg, "url") # trim(arg) => containsDangerousContent(arg)

\* C18, its case: a valid input with white space around it.
C18_Witness ==
    /\ pc = "validateYouTubeUrl"
    /\ ret.isValid
    /\ ret.sanitized # arg
    /\ ret.sanitized = trim(arg)

\* C19: VideoPlayer gives its iframe no src but the one generateEmbedUrl
\* makes of the identifier extractVideoId returned; when extractVideoId
\* returns null it shows 'Invalid YouTube URL' and does not call
\* generateEmbedUrl; the error of generateEmbedUrl is thrown for no videoUrl.
C19_IframeOnlyFromExtractedId ==
    pc = "VideoPlayer" =>
        /\ ~ret.threw
        /\ IF extractVideoId(arg) = null
           THEN /\ ret.screen = "Invalid YouTube URL"
                /\ ret.calls = << "extractVideoId" >>
                /\ ret.src = null
           ELSE /\ ret.screen = "player"
                /\ ret.src = generateEmbedUrl("string", extractVideoId(arg), ret.origin).url
                /\ ret.src # null
                /\ SubSeq(ret.src, Len(S_embedUrl) + 1, Len(S_embedUrl) + IdLength)
                      = extractVideoId(arg)

\* C19, its case: a URL on an allow-listed host without an identifier gets
\* the 'Invalid YouTube URL' screen.
C19_Witness ==
    /\ pc = "VideoPlayer"
    /\ arg = << "h", "t", "t", "p", "s", ":", "/", "/", "w", "w", "w", ".", "y", "o", "u",
                "t", "u", "b", "e", ".", "c", "o", "m", "/" >>
    /\ ret.screen = "Invalid YouTube URL"
    /\ ret.src = null

\* C20: when validateYouTubeUrl returns isValid = true the raw input has at
\* most MAX_INPUT_LENGTH characters and, trimmed, starts with 'http://' or
\* 'https://'; no result of validateYouTubeUrl holds the 'URL too long' error
\* or a 'Protocol ... is not allowed' error.
C20_UrlChecksNeverFire ==
    pc = "validateYouTubeUrl" =>
        /\ ret.isValid =>
              /\ Len(arg) <= MAX_INPUT_LENGTH
              /\ \E p \in {<< "h", "t", "t", "p", ":", "/", "/" >>, << "h", "t", "t", "p",
                              "s", ":", "/", "/" >>} :
                    SubSeq(trim(arg), 1, Len(p)) = p
        /\ \A k \in DOMAIN ret.errors :
              /\ ret.errors[k] # E_UrlTooLong
              /\ \A j \in DOMAIN E_Protocol : ret.errors[k] # E_Protocol[j]

\* C20, its case: an input of more than MAX_URL_LENGTH characters is
\* answered with the error of validateInput alone.
C20_Witness ==
    /\ pc = "validateYouTubeUrl"
    /\ Len(arg) > MAX_URL_LENGTH
    /\ ret.errors = << E_InputTooLong >>

\* C21: every handleSearch that is not throttled takes one slot of the rate
\* limit, and takes it before any validation: the count of the running
\* window goes up by one whether the input is empty, rejected or accepted; a
\* throttled handleSearch takes none.  So once ten submissions, whatever
\* became of them, are counted in the window, the next one in that window is
\* throttled, a valid one too.
C21_EverySubmissionTakesASlot ==
    [][submit'.returned =>
          LET counted == IF now - requestWindowStart > WINDOW_MS THEN 0 ELSE requestCount
          IN  /\ Head(submit'.ran) = "shouldThrottle"
              /\ ~submit'.throttled => requestCount' = counted + 1
              /\ submit'.throttled =>
                    /\ requestCount' = requestCount
                    /\ requestWindowStart' = requestWindowStart
              /\ submit'.throttled <=> counted = REQUESTS_PER_MINUTE]_vars

\* C21, its case: ten submissions, none of them accepted, are counted and a
\* valid URL is throttled.
C21_Witness ==
    /\ submit.returned
    /\ submit.throttled
    /\ Len(passLog) = REQUESTS_PER_MINUTE
    /\ searchQuery = << >>
    /\ currentVideoUrl = null
    /\ searchValue = S_validUrl

====
